---- MODULE Spec2Model ----
(***************************************************************************)
(* A model of octant/misc.py: calc_all_dens, bin_count_tracks,             *)
(* check_by_mask and check_far_from_boundaries.                            *)
(*                                                                         *)
(* Each function has a specification of its own (SpecDens, SpecCount,      *)
(* SpecMask, SpecFar).  The inputs of a call are drawn from bounded sets;  *)
(* Python values of different types are tagged records or strings:         *)
(* None is the string "None", an exception is the name of its class.       *)
(***************************************************************************)
EXTENDS Integers, Sequences, FiniteSets, TLC

VARIABLES
    d_in,        \* calc_all_dens: the arguments of the call
    d_out,       \* calc_all_dens: what the call did (status "nocall" before it)
    by,          \* bin_count_tracks: the granularity flag
    start_year,  \* bin_count_tracks: argument
    n_winters,   \* bin_count_tracks: argument
    pc,          \* bin_count_tracks: position in the function body
    counter,     \* bin_count_tracks: the local array `counter` (unbound before np.zeros)
    df,          \* bin_count_tracks: the track of the current loop iteration
    prev,        \* bin_count_tracks: `counter` as it was when the iteration began
    ntr,         \* bin_count_tracks: number of tracks taken from tr_obj.gb so far
    err,         \* bin_count_tracks: the exception raised ("None" if none)
    trackrun,    \* check_by_mask: the TrackRun (its conf)
    lsm,         \* check_by_mask: the land-sea mask handed to the calls
    themask,     \* check_by_mask: the attribute trackrun.themask (not set before any call)
    cbm,         \* check_by_mask: the last call (arguments, locals, result)
    f_in,        \* check_far_from_boundaries: the arguments of the call
    f_out        \* check_far_from_boundaries: what the call did (status "nocall" before it)

vars == <<d_in, d_out, by, start_year, n_winters, pc, counter, df, prev, ntr, err,
          trackrun, lsm, themask, cbm, f_in, f_out>>

None == "None"

\* Sequences over S of length lo..hi.
SeqsOf(S, lo, hi) == UNION {[1..n -> S] : n \in lo..hi}

Abs(x) == IF x < 0 THEN -x ELSE x

(***************************************************************************)
(* calc_all_dens                                                           *)
(***************************************************************************)
MaxSubsets == 2
MaxTypes == 2
MaxLabels == 2

DENSITY_TYPES == <<"point", "track", "genesis", "lysis">>

Labels == {"a", "b"}

\* The `subsets` argument: None, a sequence of strings, a bare string, or a
\* value that is not iterable (an int).
SubsetsArgs ==
    {[kind |-> "none", val |-> <<>>],
     [kind |-> "str", val |-> <<>>],
     [kind |-> "int", val |-> <<>>]}
    \cup {[kind |-> "seq", val |-> s] : s \in SeqsOf(Labels, 0, MaxSubsets)}

\* A TrackRun as calc_all_dens reads it: is_categorised and cat_labels.
DensTrackRuns ==
    {[is_categorised |-> FALSE, cat_labels |-> <<>>]}
    \cup {[is_categorised |-> TRUE, cat_labels |-> s] : s \in SeqsOf(Labels, 1, MaxLabels)}

TypeLists == SeqsOf({DENSITY_TYPES[i] : i \in 1..Len(DENSITY_TYPES)}, 0, MaxTypes)

\* tr_obj.density(lon2d, lat2d, by=by, subset=subset): the 2D grid of that
\* subset and density type, a value determined by (subset, by).
density(tr_obj, by_, subset) == [grid_of |-> <<subset, by_>>]

\* xr.concat(objs, dim): the objects stacked in order along the new axis `dim`;
\* xarray raises ValueError ("must supply at least one object to concatenate")
\* for an empty list.
concat(objs, dim) ==
    IF objs = <<>> THEN [raised |-> "ValueError", val |-> <<>>, coord |-> <<>>]
    ELSE [raised |-> None, val |-> objs, coord |-> dim]

\* The inner loop (lines 65-67): list2 and the density calls it makes.
InnerListReversed(tr_obj, subset, density_types) ==
    [j \in 1..Len(density_types) |->
        density(tr_obj, density_types[Len(density_types) + 1 - j], subset)]

InnerList(tr_obj, subset, density_types) ==
    [j \in 1..Len(density_types) |-> density(tr_obj, density_types[j], subset)]

InnerCalls(subset, density_types) ==
    [j \in 1..Len(density_types) |-> <<subset, density_types[j]>>]

RECURSIVE OuterLoop(_, _, _, _, _, _)
\* The outer loop (lines 63-68) from its i-th iteration on, then lines 69-70.
OuterLoop(tr_obj, subsets, density_types, i, list1, calls) ==
    IF i > Len(subsets)
    THEN LET da == concat(list1, subsets)
         IN  IF da.raised # None
             THEN [status |-> da.raised, calls |-> calls, name |-> None,
                   data |-> <<>>, subset |-> <<>>, dens_type |-> <<>>]
             ELSE [status |-> "ok", calls |-> calls, name |-> "density",
                   data |-> da.val, subset |-> da.coord, dens_type |-> density_types]
    ELSE LET list2 == InnerList(tr_obj, subsets[i], density_types)
             calls2 == calls \o InnerCalls(subsets[i], density_types)
             c == concat(list2, density_types)
         IN  IF c.raised # None
             THEN [status |-> c.raised, calls |-> calls2, name |-> None,
                   data |-> <<>>, subset |-> <<>>, dens_type |-> <<>>]
             ELSE OuterLoop(tr_obj, subsets, density_types, i + 1,
                            Append(list1, c.val), calls2)

DensRaise(e) ==
    [status |-> e, calls |-> <<>>, name |-> None,
     data |-> <<>>, subset |-> <<>>, dens_type |-> <<>>]

\* Lines 52-59: the value of `subsets` after the checks: kind "seq" with the
\* subsets the loop runs over, kind "none" when `subsets` stays None, kind
\* "error" when the argument is rejected (ArgumentError).
ResolveSubsets(tr_obj, subsets) ==
    IF subsets.kind = "none"
    THEN IF tr_obj.is_categorised
         THEN [kind |-> "seq", val |-> tr_obj.cat_labels]
         ELSE [kind |-> "none", val |-> <<>>]
    ELSE IF subsets.kind \in {"int", "str"}
         THEN [kind |-> "error", val |-> <<>>]
         ELSE [kind |-> "seq", val |-> subsets.val]

\* The outcomes of calc_all_dens(tr_obj, lon2d, lat2d, subsets, density_types).
\* With `subsets` left None, xr.DataArray(dims=("subset"), data=None) (line 61)
\* or the iteration over None (line 64) raises: ValueError or TypeError.
calc_all_dens(tr_obj, subsets, density_types) ==
    LET s == ResolveSubsets(tr_obj, subsets)
    IN  IF s.kind = "error" THEN {DensRaise("ArgumentError")}
        ELSE IF s.kind = "none" THEN {DensRaise("ValueError"), DensRaise("TypeError")}
        ELSE {OuterLoop(tr_obj, s.val, density_types, 1, <<>>, <<>>)}

DensIdle == d_in = None /\ d_out = DensRaise("nocall")

(***************************************************************************)
(* bin_count_tracks                                                        *)
(***************************************************************************)
MaxPts == 3
MaxTracks == 2
MaxWinters == 2

Flags == {"M", "m", "W", "w", "X"}
Years == {2000, 2001}
Months == {6, 7}
StartYears == {1999, 2000, 2001}

\* str.upper() on the flags.
upper(s) == IF s = "m" THEN "M" ELSE IF s = "w" THEN "W" ELSE s

\* (year, month) of a point is not later than that of another.
NotLater(p, q) == p.year < q.year \/ (p.year = q.year /\ p.month <= q.month)

\* A track: its points' (year, month) in time order, at least one point.
Tracks ==
    {t \in SeqsOf([year : Years, month : Months], 1, MaxPts) :
        \A i \in 1..(Len(t) - 1) : NotLater(t[i], t[i + 1])}

RECURSIVE unique(_)
\* pandas' Series.unique(): the distinct values in order of first appearance.
unique(s) ==
    IF s = <<>> THEN <<>>
    ELSE LET r == unique(SubSeq(s, 1, Len(s) - 1))
             x == s[Len(s)]
         IN  IF \E i \in 1..Len(r) : r[i] = x THEN r ELSE Append(r, x)

\* df.time.dt.month and df.time.dt.year.
month_of(t) == [i \in 1..Len(t) |-> t[i].month]
year_of(t) == [i \in 1..Len(t) |-> t[i].year]

zeros(n) == [i \in 1..n |-> 0]

RECURSIVE AddMonths(_, _, _)
\* Lines 98-99: for m in track_months: counter[m - 1] += 1, from the j-th on.
AddMonths(c, months, j) ==
    IF j > Len(months) THEN c
    ELSE AddMonths([c EXCEPT ![months[j]] = @ + 1], months, j + 1)

\* Lines 97-99: one iteration of the month loop.
MonthBodyNoUnique(c, t) == AddMonths(c, month_of(t), 1)

MonthBody(c, t) == AddMonths(c, unique(month_of(t)), 1)

\* Lines 108-113: whether the track increments counter[i].
WinterHitBeforeJune(t, i, sy) ==
    LET track_months == unique(month_of(t))
        track_years == unique(year_of(t))
    IN  IF track_months[Len(track_months)] < 6
        THEN track_years[1] = i + sy + 1
        ELSE track_years[Len(track_years)] = i + sy

WinterHitFromYear(t, i, sy) ==
    LET track_months == unique(month_of(t))
        track_years == unique(year_of(t))
    IN  IF track_months[Len(track_months)] <= 6
        THEN track_years[1] >= i + sy + 1
        ELSE track_years[Len(track_years)] >= i + sy

WinterHit(t, i, sy) ==
    LET track_months == unique(month_of(t))
        track_years == unique(year_of(t))
    IN  IF track_months[Len(track_months)] <= 6
        THEN track_years[1] = i + sy + 1
        ELSE track_years[Len(track_years)] = i + sy

\* Lines 104-113: one iteration of the winter loop (i runs over range(n_winters)).
WinterBody(c, t, sy, nw) ==
    [i \in 1..nw |-> IF WinterHit(t, i - 1, sy) THEN c[i] + 1 ELSE c[i]]

Unbound == [bound |-> FALSE, val |-> <<>>]

\* What bin_count_tracks does not touch.
others == <<d_in, d_out, trackrun, lsm, themask, cbm, f_in, f_out>>

CountIdle ==
    /\ by = None /\ start_year = 0 /\ n_winters = 0 /\ pc = "idle"
    /\ counter = Unbound /\ df = <<>> /\ prev = <<>> /\ ntr = 0 /\ err = None

\* Line 94 true, line 95.
IfMonth ==
    /\ pc = "if_M" /\ upper(by) = "M"
    /\ counter' = [bound |-> TRUE, val |-> zeros(12)]
    /\ pc' = "loop_M" /\ ntr' = 0
    /\ UNCHANGED <<by, start_year, n_winters, df, prev, err>>
    /\ UNCHANGED others

\* Line 94 false.
SkipMonth ==
    /\ pc = "if_M" /\ upper(by) # "M"
    /\ pc' = "if_W"
    /\ UNCHANGED <<by, start_year, n_winters, counter, df, prev, ntr, err>>
    /\ UNCHANGED others

\* Lines 96-99: the next track of tr_obj.gb.
MonthIter ==
    /\ pc = "loop_M" /\ ntr < MaxTracks
    /\ \E t \in Tracks :
          /\ df' = t
          /\ prev' = counter.val
          /\ counter' = [counter EXCEPT !.val = MonthBody(counter.val, t)]
    /\ ntr' = ntr + 1
    /\ UNCHANGED <<by, start_year, n_winters, pc, err>>
    /\ UNCHANGED others

\* tr_obj.gb is exhausted: on to line 100.
MonthDone ==
    /\ pc = "loop_M"
    /\ pc' = "if_W"
    /\ UNCHANGED <<by, start_year, n_winters, counter, df, prev, ntr, err>>
    /\ UNCHANGED others

\* Line 100 true, line 102.
IfWinter ==
    /\ pc = "if_W" /\ upper(by) = "W"
    /\ counter' = [bound |-> TRUE, val |-> zeros(n_winters)]
    /\ pc' = "loop_W" /\ ntr' = 0
    /\ UNCHANGED <<by, start_year, n_winters, df, prev, err>>
    /\ UNCHANGED others

\* Line 100 false.
SkipWinter ==
    /\ pc = "if_W" /\ upper(by) # "W"
    /\ pc' = "return"
    /\ UNCHANGED <<by, start_year, n_winters, counter, df, prev, ntr, err>>
    /\ UNCHANGED others

\* Lines 103-113: the next track of tr_obj.gb.
WinterIter ==
    /\ pc = "loop_W" /\ ntr < MaxTracks
    /\ \E t \in Tracks :
          /\ df' = t
          /\ prev' = counter.val
          /\ counter' = [counter EXCEPT
                            !.val = WinterBody(counter.val, t, start_year, n_winters)]
    /\ ntr' = ntr + 1
    /\ UNCHANGED <<by, start_year, n_winters, pc, err>>
    /\ UNCHANGED others

\* tr_obj.gb is exhausted: on to line 114.
WinterDone ==
    /\ pc = "loop_W"
    /\ pc' = "return"
    /\ UNCHANGED <<by, start_year, n_winters, counter, df, prev, ntr, err>>
    /\ UNCHANGED others

\* Line 114: return counter; an unassigned local raises UnboundLocalError.
Return ==
    /\ pc = "return"
    /\ IF counter.bound
       THEN pc' = "returned" /\ err' = err
       ELSE pc' = "raised" /\ err' = "UnboundLocalError"
    /\ UNCHANGED <<by, start_year, n_winters, counter, df, prev, ntr>>
    /\ UNCHANGED others

(***************************************************************************)
(* check_by_mask                                                           *)
(***************************************************************************)
MaxRows == 2
MaxMaskPts == 2

\* lsm.longitude, and lsm.latitude for a grid of n rows.
longitude == <<-1, 1>>
latitude(n) == [r \in 1..n |-> 2 * r - 3]

\* An attribute of trackrun.conf: absent or None (set = FALSE), or a number.
Unset == [set |-> FALSE, v |-> 0]
Bound(x) == [set |-> TRUE, v |-> x]

Confs ==
    [lon1 : {Unset, Bound(0), Bound(1)}, lon2 : {Unset, Bound(1)},
     lat1 : {Unset, Bound(0)}, lat2 : {Unset, Bound(1)}]

\* Land-sea masks: land fraction 0 or 1 per column, on grids of 1..MaxRows
\* rows; is_da is whether the argument is an xarray.DataArray.
LandMasks ==
    {[is_da |-> TRUE, nrow |-> n, values |-> [r \in 1..n |-> cols]] :
        n \in 1..MaxRows, cols \in [1..Len(longitude) -> {0, 1}]}
    \cup {[is_da |-> FALSE, nrow |-> 1, values |-> <<<<0, 0>>>>]}

\* Tracks as check_by_mask reads them: ot.lonlat_c, the points' (lon, lat).
MaskTracks == SeqsOf([lon : {-1, 1}, lat : {-1}], 1, MaxMaskPts)

LandThresholds == {1, 2}
Radii == {50}
\* mask_thresh, in percent of the track's lifetime.
MaskThresholds == {50}

\* Python's truth value of getattr(trackrun.conf, name, None): None and 0 are false.
truthy(b) == b.set /\ b.v # 0

\* np.meshgrid(lsm.longitude, lsm.latitude): lon2d[r][c] and lat2d[r][c].
lon2d(m) == [r \in 1..m.nrow |-> longitude]
lat2d(m) == [r \in 1..m.nrow |-> [c \in 1..Len(longitude) |-> latitude(m.nrow)[r]]]

\* Lines 164-172: inner_idx, the Python bool True (scalar) until a bound is
\* applied, a boolean grid afterwards.
inner_idx(conf, m) ==
    [scalar |-> ~(truthy(conf.lon1) \/ truthy(conf.lon2)
                    \/ truthy(conf.lat1) \/ truthy(conf.lat2)),
     val |-> [r \in 1..m.nrow |-> [c \in 1..Len(longitude) |->
                /\ (truthy(conf.lon1) => lon2d(m)[r][c] >= conf.lon1.v)
                /\ (truthy(conf.lon2) => lon2d(m)[r][c] <= conf.lon2.v)
                /\ (truthy(conf.lat1) => lat2d(m)[r][c] >= conf.lat1.v)
                /\ (truthy(conf.lat2) => lat2d(m)[r][c] <= conf.lat2.v)]]]

\* Lines 173-174: boundary_mask[~inner_idx] = 1.0.  For a boolean grid ~ is the
\* element-wise negation; for the Python bool True, ~True is the integer -2 and
\* the assignment sets row -2 (the last but one), an IndexError on a
\* one-row grid.
boundary_mask(inner, m) ==
    IF inner.scalar
    THEN IF m.nrow < 2
         THEN [raised |-> "IndexError", val |-> <<>>]
         ELSE [raised |-> None,
               val |-> [r \in 1..m.nrow |-> [c \in 1..Len(longitude) |->
                          IF r = m.nrow - 1 THEN 1 ELSE 0]]]
    ELSE [raised |-> None,
          val |-> [r \in 1..m.nrow |-> [c \in 1..Len(longitude) |->
                     IF inner.val[r][c] THEN 0 ELSE 1]]]

\* Line 175: ((boundary_mask == 1.0) | (l_mask >= lmask_thresh)) * 1.0
combine(bmask, m, lmask_thresh) ==
    [r \in 1..m.nrow |-> [c \in 1..Len(longitude) |->
        IF bmask[r][c] = 1 \/ m.values[r][c] >= lmask_thresh THEN 1 ELSE 0]]

\* Line 176 reads the attribute that line 175 has just assigned.
themask_c_stale(old, new) == IF old.set THEN old.val ELSE new
themask_c(old, new) == new

\* octant.utils.mask_tracks(mask, lon2d, lat2d, lonlat, dist): the share (in
\* percent) of the track's points within `dist` metres of a masked cell; a
\* grid unit is taken as 100 km.
mask_tracks(mask, lons, lats, lonlat, dist) ==
    LET near(p) == \E r \in 1..Len(mask) : \E c \in 1..Len(mask[r]) :
                      /\ mask[r][c] = 1
                      /\ (Abs(lons[r][c] - p.lon) + Abs(lats[r][c] - p.lat)) * 100000 <= dist
        n == Cardinality({k \in 1..Len(lonlat) : near(lonlat[k])})
    IN  (100 * n) \div Len(lonlat)

NoMask == [set |-> FALSE, val |-> <<>>]

NoCall ==
    [status |-> "nocall", ot |-> <<>>, lmask_thresh |-> 0, rad |-> 0, mask_thresh |-> 0,
     inner |-> [scalar |-> TRUE, val |-> <<>>], pre |-> NoMask, measure |-> 0,
     flag |-> FALSE]

MaskIdle ==
    /\ trackrun = [conf |-> [lon1 |-> Unset, lon2 |-> Unset, lat1 |-> Unset, lat2 |-> Unset]]
    /\ lsm = [is_da |-> FALSE, nrow |-> 1, values |-> <<<<0, 0>>>>]
    /\ themask = NoMask /\ cbm = NoCall

\* check_by_mask(ot, trackrun, lsm, lmask_thresh, rad, mask_thresh): lines 161-180.
check_by_mask ==
    \E ot \in MaskTracks, lmask_thresh \in LandThresholds, rad \in Radii,
       mask_thresh \in MaskThresholds :
        LET call == [NoCall EXCEPT !.ot = ot, !.lmask_thresh = lmask_thresh,
                                   !.rad = rad, !.mask_thresh = mask_thresh,
                                   !.pre = themask]
            inner == inner_idx(trackrun.conf, lsm)
            bmask == boundary_mask(inner, lsm)
            new == combine(bmask.val, lsm, lmask_thresh)
            measure == mask_tracks(themask_c(themask, new), lon2d(lsm), lat2d(lsm),
                                   ot, rad * 1000)
        IN  IF ~lsm.is_da
            THEN /\ cbm' = [call EXCEPT !.status = "AssertionError"]
                 /\ UNCHANGED themask
            ELSE IF bmask.raised # None
            THEN /\ cbm' = [call EXCEPT !.status = bmask.raised, !.inner = inner]
                 /\ UNCHANGED themask
            ELSE /\ themask' = [set |-> TRUE, val |-> new]
                 /\ cbm' = [call EXCEPT !.status = "ok", !.inner = inner,
                                        !.measure = measure,
                                        !.flag = (measure < mask_thresh)]

(***************************************************************************)
(* check_far_from_boundaries                                               *)
(***************************************************************************)
MaxFarPts == 2

FarLons == {0, 1, 2, 3}
FarLats == {0, 1, 2}
Dists == {0, 2}

\* Tracks as check_far_from_boundaries reads them: the points' lon and lat.
FarTracks == SeqsOf([lon : FarLons, lat : FarLats], 1, MaxFarPts)

\* lonlat_box: (lon_min, lon_max, lat_min, lat_max).
Boxes == {<<a, b, c, d>> : a \in FarLons, b \in FarLons, c \in FarLats, d \in FarLats}

\* octant.utils.great_circle(lon1, lon2, lat1, lat2): the distance between
\* (lon1, lat1) and (lon2, lat2); 0 between equal points, a degree of
\* longitude shorter at higher latitude.
great_circle(lon1, lon2, lat1, lat2) ==
    LET hi == IF Abs(lat1) > Abs(lat2) THEN Abs(lat1) ELSE Abs(lat2)
    IN  3 * Abs(lat1 - lat2) + (3 - hi) * Abs(lon1 - lon2)

\* Lines 224-229: the preliminary check of one point.
in_box(p, box) ==
    p.lon >= box[1] /\ p.lon <= box[2] /\ p.lat >= box[3] /\ p.lat <= box[4]

\* Line 238: the (0-based) index of the argument that edge i replaces.
arg_index_swapped(i) == 2 * (i % 2)
arg_index(i) == 2 * (i \div 2)

\* Lines 236-239: _func(row) for edge i with value ll.
edge_func(row, i, ll) ==
    LET args == [<<row.lon, row.lon, row.lat, row.lat>> EXCEPT ![arg_index(i) + 1] = ll]
    IN  great_circle(args[1], args[2], args[3], args[4])

\* check_far_from_boundaries(ot, lonlat_box, dist): lines 224-243.
check_far_from_boundaries(ot, lonlat_box, dist) ==
    IF ~(\A k \in 1..Len(ot) : in_box(ot[k], lonlat_box))
    THEN [status |-> "ok", result |-> FALSE, gc_calls |-> 0]
    ELSE [status |-> "ok",
          result |-> \A i \in 0..3 : \A k \in 1..Len(ot) :
                        edge_func(ot[k], i, lonlat_box[i + 1]) > dist,
          gc_calls |-> 4 * Len(ot)]

FarIdle ==
    /\ f_in = [ot |-> <<>>, lonlat_box |-> <<0, 0, 0, 0>>, dist |-> 0]
    /\ f_out = [status |-> "nocall", result |-> FALSE, gc_calls |-> 0]

(***************************************************************************)
(* Specifications                                                          *)
(***************************************************************************)
InitDens ==
    /\ d_in \in [tr_obj : DensTrackRuns, subsets : SubsetsArgs, density_types : TypeLists]
    /\ d_out = DensRaise("nocall")
    /\ CountIdle /\ MaskIdle /\ FarIdle

CallCalcAllDens ==
    /\ d_out.status = "nocall"
    /\ d_out' \in calc_all_dens(d_in.tr_obj, d_in.subsets, d_in.density_types)
    /\ UNCHANGED <<d_in, by, start_year, n_winters, pc, counter, df, prev, ntr, err,
                   trackrun, lsm, themask, cbm, f_in, f_out>>

NextDens == CallCalcAllDens

SpecDens == InitDens /\ [][NextDens]_vars

InitCount ==
    /\ by \in Flags /\ start_year \in StartYears /\ n_winters \in 0..MaxWinters
    /\ pc = "if_M" /\ counter = Unbound /\ df = <<>> /\ prev = <<>> /\ ntr = 0
    /\ err = None
    /\ DensIdle /\ MaskIdle /\ FarIdle

NextCount ==
    \/ IfMonth \/ SkipMonth \/ MonthIter \/ MonthDone
    \/ IfWinter \/ SkipWinter \/ WinterIter \/ WinterDone \/ Return

SpecCount == InitCount /\ [][NextCount]_vars

InitMask ==
    /\ trackrun \in [conf : Confs]
    /\ lsm \in LandMasks
    /\ themask = NoMask /\ cbm = NoCall
    /\ DensIdle /\ CountIdle /\ FarIdle

CallCheckByMask ==
    /\ check_by_mask
    /\ UNCHANGED <<d_in, d_out, by, start_year, n_winters, pc, counter, df, prev, ntr,
                   err, trackrun, lsm, f_in, f_out>>

NextMask == CallCheckByMask

SpecMask == InitMask /\ [][NextMask]_vars

InitFar ==
    /\ f_in \in [ot : FarTracks, lonlat_box : Boxes, dist : Dists]
    /\ f_out = [status |-> "nocall", result |-> FALSE, gc_calls |-> 0]
    /\ DensIdle /\ CountIdle /\ MaskIdle

CallCheckFar ==
    /\ f_out.status = "nocall"
    /\ f_out' = check_far_from_boundaries(f_in.ot, f_in.lonlat_box, f_in.dist)
    /\ UNCHANGED <<d_in, d_out, by, start_year, n_winters, pc, counter, df, prev, ntr,
                   err, trackrun, lsm, themask, cbm, f_in>>

NextFar == CallCheckFar

SpecFar == InitFar /\ [][NextFar]_vars

(***************************************************************************)
(* Properties of calc_all_dens                                             *)
(***************************************************************************)
DensCalled == d_out.status # "nocall"

\* The (subset, density type) pairs in subset-major order.
SubsetMajor(subs, types) ==
    [n \in 1..(Len(subs) * Len(types)) |->
        <<subs[((n - 1) \div Len(types)) + 1], types[((n - 1) % Len(types)) + 1]>>]

\* The call returned the 4D array of `subs` x `types`, having called density
\* once per pair in subset-major order.
DensResultFor(subs, types) ==
    /\ d_out.status = "ok"
    /\ d_out.calls = SubsetMajor(subs, types)
    /\ d_out.subset = subs /\ d_out.dens_type = types
    /\ Len(d_out.data) = Len(subs)
    /\ \A i \in 1..Len(subs) :
          /\ Len(d_out.data[i]) = Len(types)
          /\ \A j \in 1..Len(types) :
                d_out.data[i][j] = density(d_in.tr_obj, types[j], subs[i])

\* C1 as stated: for every non-string sequence `subsets` and every list
\* density_types, calc_all_dens calls density once per pair in subset-major
\* input order and returns the array whose slice (i, j) is
\* density(by=density_types[j], subset=subsets[i]).
C1_Original ==
    (DensCalled /\ d_in.subsets.kind = "seq")
        => DensResultFor(d_in.subsets.val, d_in.density_types)

\* C1 amended: the same for every non-empty sequence `subsets` and every
\* non-empty list density_types.
C1_Amended ==
    (DensCalled /\ d_in.subsets.kind = "seq"
        /\ Len(d_in.subsets.val) >= 1 /\ Len(d_in.density_types) >= 1)
        => DensResultFor(d_in.subsets.val, d_in.density_types)

\* Two subsets given in descending order, two different density types.
C1_Witness ==
    /\ d_out.status = "ok" /\ d_in.subsets.kind = "seq"
    /\ d_in.subsets.val = <<"b", "a">>
    /\ Len(d_in.density_types) = 2
    /\ d_in.density_types[1] # d_in.density_types[2]

\* C2: without `subsets`, a categorised run is processed by its cat_labels in
\* order, and a run that is not categorised is processed as one unnamed subset:
\* density is called once per type with subset=None and the subset axis has
\* length 1.
C2_Claim ==
    (DensCalled /\ d_in.subsets.kind = "none" /\ Len(d_in.density_types) >= 1)
        => IF d_in.tr_obj.is_categorised
           THEN DensResultFor(d_in.tr_obj.cat_labels, d_in.density_types)
           ELSE /\ d_out.status = "ok"
                /\ d_out.calls = SubsetMajor(<<None>>, d_in.density_types)
                /\ Len(d_out.data) = 1

(***************************************************************************)
(* Properties of bin_count_tracks                                          *)
(***************************************************************************)
\* The loop has just processed the track df.
AfterMonthIter == pc = "loop_M" /\ ntr > 0
AfterWinterIter == pc = "loop_W" /\ ntr > 0

Touches(t, m) == \E k \in 1..Len(t) : t[k].month = m

\* C3: in month mode the array has 12 elements, all 0 before the first track,
\* and each track adds exactly 1 to the bucket of every month it has a point
\* in and 0 to every other bucket, so that element k counts the tracks with a
\* point in month k+1.
C3_MonthBuckets ==
    /\ (pc = "loop_M" \/ (pc = "returned" /\ upper(by) = "M"))
          => (counter.bound /\ Len(counter.val) = 12)
    /\ (pc = "loop_M" /\ ntr = 0) => \A k \in 0..11 : counter.val[k + 1] = 0
    /\ AfterMonthIter =>
          \A k \in 0..11 :
              counter.val[k + 1] = prev[k + 1] + (IF Touches(df, k + 1) THEN 1 ELSE 0)

\* The second track has two points in one month and one in another.
C3_Witness ==
    /\ pc = "loop_M" /\ ntr = 2 /\ Len(df) = 3
    /\ df[1].month = df[2].month /\ df[3].month # df[1].month
    /\ \E k \in 1..12 : prev[k] = 1

LastPointMonth(t) == t[Len(t)].month
FirstYear(t) == t[1].year
LastYear(t) == t[Len(t)].year

\* The month of the track that is the last to appear for the first time.
LastNewMonth(t) ==
    LET first(m) == CHOOSE k \in 1..Len(t) :
                        t[k].month = m /\ \A j \in 1..(k - 1) : t[j].month # m
        ms == {t[k].month : k \in 1..Len(t)}
    IN  CHOOSE m \in ms : \A o \in ms : first(o) <= first(m)

\* The winter indices the claim gives the track, `last` its last active month.
WinterBuckets(t, last) ==
    {i \in 0..(n_winters - 1) :
        IF last <= 6 THEN FirstYear(t) = start_year + 1 + i
        ELSE LastYear(t) = start_year + i}

WinterStep(last) ==
    /\ Len(counter.val) = n_winters
    /\ Cardinality({i \in 1..n_winters : counter.val[i] # prev[i]}) <= 1
    /\ \A i \in 0..(n_winters - 1) :
          counter.val[i + 1] =
              prev[i + 1] + (IF i \in WinterBuckets(df, last) THEN 1 ELSE 0)

\* C4 as stated: in winter mode every track adds 1 in at most one bucket, the
\* one its first year selects if the month of its last point is <= 6, the one
\* its last year selects otherwise, and none if there is no such bucket.
C4_Original == AfterWinterIter => WinterStep(LastPointMonth(df))

\* C4 amended: the same, the track's last active month being the last of its
\* distinct months in order of first appearance (the month of its last point,
\* unless the track comes back to a calendar month it has left).
C4_Amended == AfterWinterIter => WinterStep(LastNewMonth(df))

\* A counted track that ends in a month it had left before.
C4_Witness ==
    /\ AfterWinterIter /\ counter.val # prev
    /\ LastPointMonth(df) # LastNewMonth(df)

Dropped == counter.val = prev /\ err = None

\* C5 as stated: in winter mode a track all of whose years are outside
\* [start_year, start_year + n_winters) raises nothing and increments no bucket.
C5_Original ==
    (AfterWinterIter
        /\ \A k \in 1..Len(df) :
              df[k].year < start_year \/ df[k].year >= start_year + n_winters)
        => Dropped

\* C5 amended: the same for a track all of whose years are outside the closed
\* range [start_year, start_year + n_winters].
C5_Amended ==
    (AfterWinterIter
        /\ \A k \in 1..Len(df) :
              df[k].year < start_year \/ df[k].year > start_year + n_winters)
        => Dropped

\* A track beyond the last winter, ending before July, with buckets to miss.
C5_Witness ==
    /\ AfterWinterIter /\ n_winters >= 1
    /\ \A k \in 1..Len(df) : df[k].year > start_year + n_winters
    /\ LastPointMonth(df) <= 6

\* C6: a flag that is neither "M" nor "W" (in either case) makes
\* bin_count_tracks fail with an invalid-argument error; no array is returned.
C6_Claim ==
    (pc \in {"returned", "raised"} /\ upper(by) \notin {"M", "W"})
        => (pc = "raised" /\ err \in {"ArgumentError", "ValueError"})

(***************************************************************************)
(* Properties of check_by_mask                                             *)
(***************************************************************************)
\* The inner grid at a cell: the Python bool True stands for every cell.
InnerAt(inner, r, c) == IF inner.scalar THEN TRUE ELSE inner.val[r][c]

Cells == {<<r, c>> : r \in 1..lsm.nrow, c \in 1..Len(longitude)}

\* The cell satisfies every configured bound (None or absent: not configured).
WithinConfigured(conf, r, c) ==
    /\ (conf.lon1.set => longitude[c] >= conf.lon1.v)
    /\ (conf.lon2.set => longitude[c] <= conf.lon2.v)
    /\ (conf.lat1.set => latitude(lsm.nrow)[r] >= conf.lat1.v)
    /\ (conf.lat2.set => latitude(lsm.nrow)[r] <= conf.lat2.v)

\* C7: the inner grid is true at a cell exactly when the cell satisfies every
\* configured bound, whatever number the bound is, 0 included.
C7_Claim ==
    cbm.status = "ok"
        => \A x \in Cells :
              InnerAt(cbm.inner, x[1], x[2]) = WithinConfigured(trackrun.conf, x[1], x[2])

NoneConfigured(conf) ==
    ~(conf.lon1.set \/ conf.lon2.set \/ conf.lat1.set \/ conf.lat2.set)

\* C8: after a successful call themask is 1 exactly at the cells outside the
\* inner region or with land fraction >= lmask_thresh and 0 elsewhere; with no
\* bound configured the call succeeds on a grid of any number of rows and
\* themask is 1 exactly where the land fraction is >= lmask_thresh.
C8_Claim ==
    /\ cbm.status = "ok" =>
          /\ themask.set
          /\ \A x \in Cells :
                themask.val[x[1]][x[2]] =
                    (IF ~InnerAt(cbm.inner, x[1], x[2])
                           \/ lsm.values[x[1]][x[2]] >= cbm.lmask_thresh
                     THEN 1 ELSE 0)
    /\ (cbm.status # "nocall" /\ lsm.is_da /\ NoneConfigured(trackrun.conf)) =>
          /\ cbm.status = "ok"
          /\ \A x \in Cells :
                themask.val[x[1]][x[2]] =
                    (IF lsm.values[x[1]][x[2]] >= cbm.lmask_thresh THEN 1 ELSE 0)

\* The arguments of a call.
ArgsOf(call) == <<call.ot, call.lmask_thresh, call.rad, call.mask_thresh>>

\* The measure of the mask-distance routine on the mask this call builds.
MeasureOf(call) ==
    LET inner == inner_idx(trackrun.conf, lsm)
        new == combine(boundary_mask(inner, lsm).val, lsm, call.lmask_thresh)
    IN  mask_tracks(new, lon2d(lsm), lat2d(lsm), call.ot, call.rad * 1000)

FlagFromArgs ==
    cbm.status = "ok" =>
        /\ cbm.flag = (cbm.measure < cbm.mask_thresh)
        /\ cbm.measure = MeasureOf(cbm)

SameArgsSameFlag ==
    (cbm.status = "ok" /\ cbm'.status = "ok" /\ ArgsOf(cbm') = ArgsOf(cbm))
        => cbm'.flag = cbm.flag

\* C10: check_by_mask returns true iff the routine's measure is strictly less
\* than mask_thresh; the measure is that of the mask built in this call from
\* its arguments, whatever themask held before, and a call with the arguments
\* of the call before it returns the same value.
C10_FlagFromArgs == []FlagFromArgs /\ [][SameArgsSameFlag]_vars

\* A call that found in themask a mask other than the one it builds.
C10_Witness ==
    /\ cbm.status = "ok" /\ cbm.pre.set /\ cbm.pre.val # themask.val
    /\ cbm.measure # mask_tracks(cbm.pre.val, lon2d(lsm), lat2d(lsm), cbm.ot,
                                 cbm.rad * 1000)

(***************************************************************************)
(* Properties of check_far_from_boundaries                                 *)
(***************************************************************************)
\* The distance from point p to its projection on edge e (0..3) of the box.
EdgeDistance(p, e, box) ==
    IF e \in {0, 1} THEN great_circle(box[e + 1], p.lon, p.lat, p.lat)
    ELSE great_circle(p.lon, p.lon, box[e + 1], p.lat)

AllInside(ot, box) ==
    \A k \in 1..Len(ot) :
        /\ box[1] <= ot[k].lon /\ ot[k].lon <= box[2]
        /\ box[3] <= ot[k].lat /\ ot[k].lat <= box[4]

OnAnEdge(p, box) == p.lon \in {box[1], box[2]} \/ p.lat \in {box[3], box[4]}

\* C9: the result is true iff every point is inside the closed box and
\* farther than dist from its projection on each of the four edges; a point
\* outside the box gives false with no great-circle evaluation, and a point on
\* an edge gives false when dist > 0.
C9_FarFromBoundaries ==
    f_out.status = "ok" =>
        LET ot == f_in.ot
            box == f_in.lonlat_box
        IN  /\ f_out.result <=>
                  /\ AllInside(ot, box)
                  /\ \A k \in 1..Len(ot) : \A e \in 0..3 :
                        EdgeDistance(ot[k], e, box) > f_in.dist
            /\ ~AllInside(ot, box) => (~f_out.result /\ f_out.gc_calls = 0)
            /\ (f_in.dist > 0 /\ \E k \in 1..Len(ot) : OnAnEdge(ot[k], box))
                  => ~f_out.result

\* Two different points, both inside and far enough from every edge.
C9_Witness ==
    /\ f_out.status = "ok" /\ f_out.result /\ f_out.gc_calls = 8
    /\ Len(f_in.ot) = 2 /\ f_in.ot[1] # f_in.ot[2]

====
